---- MODULE Spec2Model ----
(***************************************************************************)
(* Model of the Fuji 3D -> SBS converter.                                  *)
(*   src/main_images.py : parse_mpo_for_second_image, make_sbs, mpo_to_sbs *)
(*   src/main.py        : extract_and_create_sbs_with_audio                *)
(* Four state machines share the module; each specification runs one of    *)
(* them and holds the variables of the others at their idle values.        *)
(***************************************************************************)
EXTENDS Integers, Sequences, FiniteSets, TLC

VARIABLES
    \* parse_mpo_for_second_image
    buf, i, offsets, scan_pc, scan_ret,
    \* make_sbs
    left, right, target_height, sbs_pc, sbs_out,
    \* extract_and_create_sbs_with_audio
    avi_input,          \* what input_video_or_folder names on disk
    output_exists,      \* whether output_folder exists
    output_existed,     \* ... and whether it did before the call
    avi_files, avi_k, avi_pc, results, avi_ret,
    pos, movi_end, left_files, right_files, framerate,
    outputs,            \* final videos written, by input name
    hdr_reads,          \* the 8-byte headers read from the current file
    \* mpo_to_sbs
    img_input,          \* what input_path names on disk
    recursive, workers, cpu_count, img_target,
    outdir_exists,      \* whether output_folder exists
    outdir_existed,     \* ... and whether it did before the call
    tasks, img_pc, logs, img_ret,
    submitted,          \* how many tasks have been handed to the executor
    queue,              \* the executor's work queue (task numbers)
    running,            \* per pool thread: the task in process_one, or 0
    finished,           \* per task: the result of its future, once done
    collected,          \* the futures as_completed has yielded
    saved,              \* every sbs.save() so far: who saved which file
    ran                 \* per task: the threads that ran process_one on it

scanVars == <<buf, i, offsets, scan_pc, scan_ret>>
sbsVars  == <<left, right, target_height, sbs_pc, sbs_out>>
aviVars  == <<avi_input, output_exists, output_existed, avi_files, avi_k,
              avi_pc, results, avi_ret, pos, movi_end, left_files,
              right_files, framerate, outputs, hdr_reads>>
imgVars  == <<img_input, recursive, workers, cpu_count, img_target,
              outdir_exists, outdir_existed, tasks, img_pc, logs, img_ret,
              submitted, queue, running, finished, collected, saved, ran>>
vars     == <<scanVars, sbsVars, aviVars, imgVars>>

None == [kind |-> "none"]

(***************************************************************************)
(* Generic helpers                                                         *)
(***************************************************************************)
Max(a, b) == IF a >= b THEN a ELSE b
Min(a, b) == IF a <= b THEN a ELSE b

RECURSIVE Flatten(_)
Flatten(ss) == IF ss = <<>> THEN <<>> ELSE Head(ss) \o Flatten(Tail(ss))

\* The ascending enumeration of a finite set of integers.
RECURSIVE SortedSeq(_)
SortedSeq(S) ==
    IF S = {} THEN <<>>
    ELSE LET m == CHOOSE x \in S : \A y \in S : x <= y
         IN  <<m>> \o SortedSeq(S \ {m})

(***************************************************************************)
(* parse_mpo_for_second_image (src/main_images.py:19-35)                   *)
(***************************************************************************)
pattern1 == <<255, 216, 255, 225>>
pattern2 == <<255, 216, 255, 224>>

\* buf[i], buf[i+1], buf[i+2], buf[i+3] with Python's 0-based index
Quad(b, k) == <<b[k + 1], b[k + 2], b[k + 3], b[k + 4]>>

IsMarker(b, k) == Quad(b, k) = pattern1 \/ Quad(b, k) = pattern2

SkipAfterMatch_skip4 == 3 + 1
\* "i += 3" after a recorded match (followed by the unconditional "i += 1")
SkipAfterMatch == 3

\* the bytes and fragments the scanned buffers are assembled from
ScanTokens ==
    { pattern1, pattern2, <<255>>, <<216>>, <<225>>, <<224>>, <<0>> }

MaxTokens == 4

ScanBuffers ==
    { Flatten(ts) : ts \in UNION { [1..k -> ScanTokens] : k \in 0..MaxTokens } }

ScanOff ==
    /\ buf = <<>> /\ i = 0 /\ offsets = <<>>
    /\ scan_pc = "off" /\ scan_ret = None

InitScanVars ==
    /\ buf \in ScanBuffers
    /\ i = 0
    /\ offsets = <<>>
    /\ scan_pc = "loop"
    /\ scan_ret = None

\* one iteration of "while i <= n - 4"
ScanStep ==
    /\ scan_pc = "loop"
    /\ i <= Len(buf) - 4
    /\ IF IsMarker(buf, i)
       THEN /\ offsets' = Append(offsets, i)
            /\ i' = i + SkipAfterMatch + 1
       ELSE /\ offsets' = offsets
            /\ i' = i + 1
    /\ UNCHANGED <<buf, scan_pc, scan_ret>>
    /\ UNCHANGED <<sbsVars, aviVars, imgVars>>

\* loop exit, the marker-count test and the returned (start, length)
ScanReturn ==
    /\ scan_pc = "loop"
    /\ ~(i <= Len(buf) - 4)
    /\ scan_pc' = "done"
    /\ scan_ret' =
         IF Len(offsets) < 2
         THEN [kind |-> "ValueError"]
         ELSE [kind   |-> "ok",
               start  |-> offsets[2],
               length |-> IF Len(offsets) >= 3
                          THEN offsets[3] - offsets[2]
                          ELSE Len(buf) - offsets[2]]
    /\ UNCHANGED <<buf, i, offsets>>
    /\ UNCHANGED <<sbsVars, aviVars, imgVars>>

(***************************************************************************)
(* make_sbs (src/main_images.py:81-102)                                    *)
(***************************************************************************)
\* Python's round() on the exact quotient num/den (den > 0): nearest
\* integer, ties to the even neighbour.
RoundHalfEven(num, den) ==
    LET q == num \div den
        r == num % den
    IN  IF 2 * r < den THEN q
        ELSE IF 2 * r > den THEN q + 1
        ELSE IF q % 2 = 0 THEN q ELSE q + 1

\* Image.resize((W, H), LANCZOS): a new image of the requested size
Resize(im, W, H) ==
    [width |-> W, height |-> H, id |-> <<"resized", im.id>>]

scale_to_h_ge(im, H) ==
    IF H <= 0 \/ im.height >= H
    THEN im
    ELSE Resize(im, RoundHalfEven(im.width * H, im.height), H)

scale_to_h(im, H) ==
    IF H <= 0 \/ im.height = H
    THEN im
    ELSE Resize(im, RoundHalfEven(im.width * H, im.height), H)

\* Image.new("RGB", (w, h)) followed by the two paste calls
NewCanvas(w, h) == [width |-> w, height |-> h, pastes |-> <<>>]

Paste(canvas, im, x, y) ==
    [canvas EXCEPT !.pastes = Append(@, [im |-> im, x |-> x, y |-> y])]

make_sbs(l, r, t) ==
    LET H == IF t # 0 /\ t > 0 THEN t ELSE Max(l.height, r.height)
        L == scale_to_h(l, H)
        R == scale_to_h(r, H)
    IN  Paste(Paste(NewCanvas(L.width + R.width, H), L, 0, 0), R, L.width, 0)

MaxDim == 3

Dims == 1..MaxDim

SbsOff ==
    /\ left = None /\ right = None /\ target_height = 0
    /\ sbs_pc = "off" /\ sbs_out = None

InitSbsVars ==
    /\ left \in [width : Dims, height : Dims, id : {"left"}]
    /\ right \in [width : Dims, height : Dims, id : {"right"}]
    /\ target_height \in -1..MaxDim
    /\ sbs_pc = "call"
    /\ sbs_out = None

Compose ==
    /\ sbs_pc = "call"
    /\ sbs_out' = make_sbs(left, right, target_height)
    /\ sbs_pc' = "done"
    /\ UNCHANGED <<left, right, target_height>>
    /\ UNCHANGED <<scanVars, aviVars, imgVars>>

(***************************************************************************)
(* extract_and_create_sbs_with_audio (src/main.py:9-166)                   *)
(***************************************************************************)
\* ---- bytes, as the struct/bytes calls see them ----
RIFF == <<82, 73, 70, 70>>
AVI_ == <<65, 86, 73, 32>>
LIST == <<76, 73, 83, 84>>
movi == <<109, 111, 118, 105>>
hdrl == <<104, 100, 114, 108>>
avih == <<97, 118, 105, 104>>
JUNK == <<74, 85, 78, 75>>
idx1 == <<105, 100, 120, 49>>
WAVE == <<87, 65, 86, 69>>
tag_00dc == <<48, 48, 100, 99>>
tag_02dc == <<48, 50, 100, 99>>
tag_01wb == <<48, 49, 119, 98>>

\* f.read(n) at position p: at most n bytes, fewer at the end of the file
ReadAt(bytes, p, n) ==
    IF p >= Len(bytes) THEN <<>>
    ELSE SubSeq(bytes, p + 1, Min(p + n, Len(bytes)))

\* struct.unpack('<I', b): little-endian unsigned 32 bit
U32(b) == b[1] + 256 * b[2] + 65536 * b[3] + 16777216 * b[4]

\* what str.strip() removes among the ASCII characters
IsSpaceByte(b) == (b >= 9 /\ b <= 13) \/ (b >= 28 /\ b <= 32)

RECURSIVE LStripBytes(_)
LStripBytes(s) ==
    IF s # <<>> /\ IsSpaceByte(Head(s)) THEN LStripBytes(Tail(s)) ELSE s

RECURSIVE RStripBytes(_)
RStripBytes(s) ==
    IF s # <<>> /\ IsSpaceByte(s[Len(s)])
    THEN RStripBytes(SubSeq(s, 1, Len(s) - 1))
    ELSE s

\* b.decode('ascii', errors='ignore').strip()
DecodeStrip(b) ==
    RStripBytes(LStripBytes(SelectSeq(b, LAMBDA x : x < 128)))

\* ---- the frame-rate string (src/main.py:42-47) ----
Digits == {"0", "1", "2", "3", "4", "5", "6", "7", "8", "9"}
Spaces == {" ", "\n"}

DigitVal(c) ==
    CASE c = "0" -> 0 [] c = "1" -> 1 [] c = "2" -> 2 [] c = "3" -> 3
      [] c = "4" -> 4 [] c = "5" -> 5 [] c = "6" -> 6 [] c = "7" -> 7
      [] c = "8" -> 8 [] c = "9" -> 9

RECURSIVE LStrip(_)
LStrip(s) == IF s # <<>> /\ Head(s) \in Spaces THEN LStrip(Tail(s)) ELSE s

RECURSIVE RStrip(_)
RStrip(s) ==
    IF s # <<>> /\ s[Len(s)] \in Spaces
    THEN RStrip(SubSeq(s, 1, Len(s) - 1))
    ELSE s

Strip(s) == RStrip(LStrip(s))

Contains(s, c) == \E k \in 1..Len(s) : s[k] = c

\* s.split(sep)
RECURSIVE Split(_, _)
Split(s, sep) ==
    IF ~Contains(s, sep) THEN <<s>>
    ELSE LET k == CHOOSE j \in 1..Len(s) :
                      s[j] = sep /\ \A m \in 1..(j - 1) : s[m] # sep
         IN  <<SubSeq(s, 1, k - 1)>> \o Split(SubSeq(s, k + 1, Len(s)), sep)

RECURSIVE DigitsVal(_)
DigitsVal(s) ==
    IF s = <<>> THEN 0
    ELSE 10 * DigitsVal(SubSeq(s, 1, Len(s) - 1)) + DigitVal(s[Len(s)])

RECURSIVE Pow10(_)
Pow10(k) == IF k = 0 THEN 1 ELSE 10 * Pow10(k - 1)

AllDigits(s) == \A k \in 1..Len(s) : s[k] \in Digits

\* int(s) accepts surrounding blanks and needs at least one digit
IntParses(s) == Strip(s) # <<>> /\ AllDigits(Strip(s))
IntOf(s) == DigitsVal(Strip(s))

\* float(s) on digits with at most one point and at least one digit
FloatParses(s) ==
    LET t == Strip(s)
    IN  /\ \A k \in 1..Len(t) : t[k] \in Digits \cup {"."}
        /\ Cardinality({k \in 1..Len(t) : t[k] = "."}) <= 1
        /\ \E k \in 1..Len(t) : t[k] \in Digits

Rat(n, d) == [n |-> n, d |-> d]
RatEq(a, b) == a.n * b.d = b.n * a.d

FloatOf(s) ==
    LET t  == Strip(s)
        ps == Split(t, ".")
        fr == IF Len(ps) = 2 THEN ps[2] ELSE <<>>
    IN  Rat(DigitsVal(ps[1] \o fr), Pow10(Len(fr)))

DefaultRate == 30

\* [kind |-> "ok", value |-> a rational] or [kind |-> "ValueError"]
FrameRate(stdout) ==
    LET framerate_raw == Strip(stdout)
    IN  IF Contains(framerate_raw, "/")
        THEN LET parts == Split(framerate_raw, "/")
             IN  IF Len(parts) # 2 \/ ~IntParses(parts[1]) \/ ~IntParses(parts[2])
                 THEN [kind |-> "ValueError"]
                 ELSE LET num   == IntOf(parts[1])
                          denom == IntOf(parts[2])
                      IN  [kind  |-> "ok",
                           value |-> IF denom # 0
                                     THEN Rat(RoundHalfEven(num * 1000, denom), 1000)
                                     ELSE Rat(DefaultRate, 1)]
        ELSE IF framerate_raw # <<>>
             THEN IF FloatParses(framerate_raw)
                  THEN [kind |-> "ok", value |-> FloatOf(framerate_raw)]
                  ELSE [kind |-> "ValueError"]
             ELSE [kind |-> "ok", value |-> Rat(DefaultRate, 1)]

\* Image.open on a frame file: an empty file is never an image; the frame
\* payloads of the model stand for JPEG streams.
Decodable(payload) == Len(payload) > 0

\* suffix.lower() on the extensions that occur
Lower(ext) ==
    CASE ext = ".AVI" -> ".avi"
      [] ext = ".MPO" -> ".mpo"
      [] ext = ".JPG" -> ".jpg"
      [] OTHER -> ext

\* lines 17-21: the single .avi file, or the *.avi entries of the folder
DiscoverAvi(inp) ==
    IF inp.kind = "file" /\ Lower(inp.file.ext) = ".avi" THEN <<inp.file>>
    ELSE IF inp.kind = "dir"
         THEN SelectSeq(inp.entries, LAMBDA f : f.ext = ".avi")
         ELSE <<>>

AviOff ==
    /\ avi_input = None /\ output_exists = FALSE /\ output_existed = FALSE
    /\ avi_files = <<>> /\ avi_k = 0 /\ avi_pc = "off" /\ results = <<>>
    /\ avi_ret = None /\ pos = 0 /\ movi_end = 0 /\ left_files = <<>>
    /\ right_files = <<>> /\ framerate = None /\ outputs = {}
    /\ hdr_reads = <<>>

\* "except Exception as e: return f'Error: {e}'" (lines 165-166)
AviRaise(what) ==
    /\ avi_ret' = [kind |-> "error", msg |-> what]
    /\ avi_pc' = "returned"

\* lines 11-26
AviCall ==
    /\ avi_pc = "call"
    /\ output_exists' = TRUE
    /\ LET found == DiscoverAvi(avi_input)
       IN  IF found = <<>>
           THEN /\ avi_ret' = [kind |-> "error", msg |-> "No AVI files found."]
                /\ avi_pc' = "returned"
                /\ UNCHANGED <<avi_files, avi_k>>
           ELSE /\ avi_files' = found
                /\ avi_k' = 1
                /\ avi_pc' = "item"
                /\ UNCHANGED avi_ret
    /\ UNCHANGED <<avi_input, output_existed, results, pos, movi_end,
                   left_files, right_files, framerate, outputs, hdr_reads>>
    /\ UNCHANGED <<scanVars, sbsVars, imgVars>>

\* lines 28-66: temp folder, ffprobe, audio, open, the 12-byte RIFF header
AviStartItem ==
    /\ avi_pc = "item"
    /\ avi_k <= Len(avi_files)
    /\ LET avi_file    == avi_files[avi_k]
           fr          == FrameRate(avi_file.probe)
           riff_header == ReadAt(avi_file.bytes, 0, 12)
       IN  /\ left_files' = <<>>
           /\ right_files' = <<>>
           /\ hdr_reads' = <<>>
           /\ IF fr.kind = "ValueError"
              THEN /\ AviRaise("ValueError")
                   /\ UNCHANGED <<framerate, results, avi_k, pos>>
              ELSE /\ framerate' = fr.value
                   /\ IF Len(riff_header) < 12
                      THEN /\ AviRaise("struct.error")
                           /\ UNCHANGED <<results, avi_k, pos>>
                      ELSE IF SubSeq(riff_header, 1, 4) # RIFF
                              \/ SubSeq(riff_header, 9, 12) # AVI_
                           THEN /\ results' = Append(results,
                                      [kind |-> "skipping", name |-> avi_file.name])
                                /\ avi_k' = avi_k + 1
                                /\ UNCHANGED <<avi_pc, avi_ret, pos>>
                           ELSE /\ pos' = 12
                                /\ avi_pc' = "top"
                                /\ UNCHANGED <<results, avi_k, avi_ret>>
    /\ UNCHANGED <<avi_input, output_exists, output_existed, avi_files,
                   movi_end, outputs>>
    /\ UNCHANGED <<scanVars, sbsVars, imgVars>>

\* lines 68-81 and 107-109: one pass of the outer "while True"
AviTopChunk ==
    /\ avi_pc = "top"
    /\ LET bytes  == avi_files[avi_k].bytes
           header == ReadAt(bytes, pos, 8)
       IN  IF Len(header) < 8
           THEN /\ avi_pc' = "pair"
                /\ UNCHANGED <<pos, movi_end, hdr_reads>>
           ELSE LET chunk_id   == DecodeStrip(SubSeq(header, 1, 4))
                    chunk_size == U32(SubSeq(header, 5, 8))
                IN  IF chunk_id = LIST
                    THEN LET list_type == ReadAt(bytes, pos + 8, 4)
                             subtype   == DecodeStrip(list_type)
                         IN  /\ pos' = pos + 8 + Len(list_type)
                             /\ IF subtype = movi
                                THEN /\ movi_end' = pos + 8 + chunk_size
                                     /\ avi_pc' = "movi"
                                     /\ hdr_reads' = Append(hdr_reads,
                                          [pos |-> pos, size |-> chunk_size,
                                           kind |-> "movi"])
                                ELSE /\ hdr_reads' = Append(hdr_reads,
                                          [pos |-> pos, size |-> chunk_size,
                                           kind |-> "list"])
                                     /\ UNCHANGED <<movi_end, avi_pc>>
                    ELSE /\ pos' = pos + 8 + chunk_size + (chunk_size % 2)
                         /\ hdr_reads' = Append(hdr_reads,
                              [pos |-> pos, size |-> chunk_size, kind |-> "chunk"])
                         /\ UNCHANGED <<movi_end, avi_pc>>
    /\ UNCHANGED <<avi_input, output_exists, output_existed, avi_files, avi_k,
                   results, avi_ret, left_files, right_files, framerate,
                   outputs>>
    /\ UNCHANGED <<scanVars, sbsVars, imgVars>>

PadAfter_never(frame_size) == 0
\* lines 105-106: "if frame_size % 2 == 1: f.seek(1, 1)"
PadAfter(frame_size) == IF frame_size % 2 = 1 THEN 1 ELSE 0

\* lines 83-106: one pass of "while f.tell() < movi_end"
AviMoviChunk ==
    /\ avi_pc = "movi"
    /\ pos < movi_end
    /\ LET bytes        == avi_files[avi_k].bytes
           frame_header == ReadAt(bytes, pos, 8)
       IN  IF Len(frame_header) < 8
           THEN /\ avi_pc' = "pair"
                /\ UNCHANGED <<pos, left_files, right_files, hdr_reads>>
           ELSE LET frame_id   == DecodeStrip(SubSeq(frame_header, 1, 4))
                    frame_size == U32(SubSeq(frame_header, 5, 8))
                    frame_data == ReadAt(bytes, pos + 8, frame_size)
                IN  /\ left_files' = IF frame_id = tag_00dc
                                     THEN Append(left_files, frame_data)
                                     ELSE left_files
                    /\ right_files' = IF frame_id # tag_00dc /\ frame_id = tag_02dc
                                      THEN Append(right_files, frame_data)
                                      ELSE right_files
                    /\ pos' = pos + 8 + Len(frame_data) + PadAfter(frame_size)
                    /\ hdr_reads' = Append(hdr_reads,
                         [pos |-> pos, size |-> frame_size, kind |-> "sub"])
                    /\ UNCHANGED avi_pc
    /\ UNCHANGED <<avi_input, output_exists, output_existed, avi_files, avi_k,
                   results, avi_ret, movi_end, framerate, outputs>>
    /\ UNCHANGED <<scanVars, sbsVars, imgVars>>

\* the inner loop's condition fails; line 107 leaves the outer loop
AviMoviEnd ==
    /\ avi_pc = "movi"
    /\ ~(pos < movi_end)
    /\ avi_pc' = "pair"
    /\ UNCHANGED <<avi_input, output_exists, output_existed, avi_files, avi_k,
                   results, avi_ret, pos, movi_end, left_files, right_files,
                   framerate, outputs, hdr_reads>>
    /\ UNCHANGED <<scanVars, sbsVars, imgVars>>

min_frames_max(l, r) == Max(l, r)
\* line 111
min_frames(l, r) == Min(l, r)

\* lines 111-161: pairing, merging, encoding, muxing, cleanup
AviPair ==
    /\ avi_pc = "pair"
    /\ LET avi_file == avi_files[avi_k]
           n        == min_frames(Len(left_files), Len(right_files))
       IN  IF n = 0
           THEN /\ results' = Append(results,
                      [kind |-> "extraction_failed", name |-> avi_file.name,
                       left |-> Len(left_files), right |-> Len(right_files)])
                /\ avi_k' = avi_k + 1
                /\ avi_pc' = "item"
                /\ UNCHANGED <<avi_ret, outputs, left_files, right_files>>
           ELSE IF \E idx \in 1..n :
                       \/ idx > Len(left_files)
                       \/ idx > Len(right_files)
                       \/ ~Decodable(left_files[idx])
                       \/ ~Decodable(right_files[idx])
                THEN /\ AviRaise("Image.open")
                     /\ UNCHANGED <<results, avi_k, outputs, left_files,
                                    right_files>>
                ELSE /\ outputs' = outputs \cup
                          {[name      |-> avi_file.name,
                            frames    |-> [idx \in 1..n |->
                                             [left  |-> left_files[idx],
                                              right |-> right_files[idx]]],
                            framerate |-> framerate]}
                     /\ left_files' = <<>>
                     /\ right_files' = <<>>
                     /\ results' = Append(results,
                          [kind |-> "ok", name |-> avi_file.name])
                     /\ avi_k' = avi_k + 1
                     /\ avi_pc' = "item"
                     /\ UNCHANGED avi_ret
    /\ UNCHANGED <<avi_input, output_exists, output_existed, avi_files, pos,
                   movi_end, framerate, hdr_reads>>
    /\ UNCHANGED <<scanVars, sbsVars, imgVars>>

\* line 163
AviReturn ==
    /\ avi_pc = "item"
    /\ avi_k > Len(avi_files)
    /\ avi_ret' = [kind |-> "report", lines |-> results]
    /\ avi_pc' = "returned"
    /\ UNCHANGED <<avi_input, output_exists, output_existed, avi_files, avi_k,
                   results, pos, movi_end, left_files, right_files, framerate,
                   outputs, hdr_reads>>
    /\ UNCHANGED <<scanVars, sbsVars, imgVars>>

(***************************************************************************)
(* The inputs of extract_and_create_sbs_with_audio: files assembled from   *)
(* their chunk structure and serialized to bytes, which is all the walk    *)
(* reads.                                                                  *)
(***************************************************************************)
U32Bytes(n) ==
    <<n % 256, (n \div 256) % 256, (n \div 65536) % 256, (n \div 16777216) % 256>>

Chunk(tag, payload) ==
    tag \o U32Bytes(Len(payload)) \o payload
        \o (IF Len(payload) % 2 = 1 THEN <<0>> ELSE <<>>)

ListChunk(subtype, body) == LIST \o U32Bytes(4 + Len(body)) \o subtype \o body

RiffFile(form, body) == RIFF \o U32Bytes(4 + Len(body)) \o form \o body

\* the payload of the j-th sub-chunk of a movie list: size bytes of value j
Payload(j, size) == [x \in 1..size |-> j]

MoviBody(subs) ==
    Flatten([j \in 1..Len(subs) |-> Chunk(subs[j].tag, Payload(j, subs[j].size))])

Sub(tag, size) == [tag |-> tag, size |-> size]

SubKinds == { Sub(t, s) : t \in {tag_00dc, tag_02dc, tag_01wb}, s \in {2, 5} }

MaxSub == 3

SubSeqs == UNION { [1..k -> SubKinds] : k \in 0..MaxSub }

HeaderList == ListChunk(hdrl, Chunk(avih, <<7, 7, 7, 7, 7>>))

Prefixes ==
    { <<>>,
      Chunk(JUNK, <<1, 1, 1>>),
      ListChunk(hdrl, Chunk(avih, <<7, 7>>)),
      HeaderList \o Chunk(JUNK, <<1, 1>>) }

Suffix == Chunk(idx1, <<9, 9>>)

AviBytes(prefix, subs) ==
    RiffFile(AVI_, prefix \o ListChunk(movi, MoviBody(subs)) \o Suffix)

Probe30 == <<"3", "0", "/", "1">>

\* subs and wellformed describe how the bytes were built (a complete
\* container whose frame payloads are images); the program never reads them
MkFile(name, ext, bytes, probe, subs, wellformed) ==
    [name |-> name, ext |-> ext, bytes |-> bytes, probe |-> probe,
     subs |-> subs, wellformed |-> wellformed]

SampleSubs ==
    <<Sub(tag_00dc, 5), Sub(tag_02dc, 5), Sub(tag_01wb, 2),
      Sub(tag_00dc, 2), Sub(tag_02dc, 2)>>

SampleBytes == AviBytes(HeaderList \o Chunk(JUNK, <<1, 1>>), SampleSubs)

GoodFile == MkFile(1, ".avi", SampleBytes, Probe30, SampleSubs, TRUE)

BasicFile(kind) ==
    CASE kind = "good" -> GoodFile
      [] kind = "empty" -> MkFile(1, ".avi", <<>>, Probe30, <<>>, FALSE)
      [] kind = "wave" ->
           MkFile(1, ".avi", RiffFile(WAVE, Chunk(JUNK, <<1, 1>>)), Probe30,
                  <<>>, FALSE)
      [] kind = "leftonly" ->
           MkFile(1, ".avi", AviBytes(<<>>, <<Sub(tag_00dc, 2), Sub(tag_00dc, 5)>>),
                  Probe30, <<Sub(tag_00dc, 2), Sub(tag_00dc, 5)>>, TRUE)
      [] kind = "dropped" ->
           MkFile(1, ".avi", AviBytes(<<>>, <<Sub(tag_00dc, 0), Sub(tag_02dc, 2)>>),
                  Probe30, <<Sub(tag_00dc, 0), Sub(tag_02dc, 2)>>, FALSE)
      [] kind = "txt" -> MkFile(1, ".txt", <<1, 2, 3>>, <<>>, <<>>, FALSE)

BasicKinds == {"good", "empty", "wave", "leftonly", "dropped", "txt"}

MaxBatch == 3

\* a folder listing: the j-th entry is named j
Batch(kinds) ==
    [j \in 1..Len(kinds) |-> [BasicFile(kinds[j]) EXCEPT !.name = j]]

ProbeChars == {"0", "1", "3", "/", ".", "N", "\n"}

MaxStr == 3

ProbeStrings == UNION { [1..k -> ProbeChars] : k \in 0..MaxStr }

File(f) == [kind |-> "file", file |-> f]
Dir(entries) == [kind |-> "dir", entries |-> entries]

AviInputs ==
    {[kind |-> "missing"]}
    \cup { File(MkFile(1, ".avi", AviBytes(p, subs), Probe30, subs, TRUE)) :
             p \in Prefixes, subs \in SubSeqs }
    \cup { File(MkFile(1, ".avi", SubSeq(SampleBytes, 1, n), Probe30, <<>>, FALSE)) :
             n \in 0..(Len(SampleBytes) - 1) }
    \cup { File([GoodFile EXCEPT !.ext = ".AVI"]), File(BasicFile("txt")) }
    \cup { Dir(Batch(ks)) : ks \in UNION { [1..k -> BasicKinds] : k \in 0..MaxBatch } }
    \cup { Dir(<<GoodFile, [GoodFile EXCEPT !.name = 2, !.probe = s]>>) :
             s \in ProbeStrings }

InitAviVars ==
    /\ avi_input \in AviInputs
    /\ output_exists \in BOOLEAN
    /\ output_existed = output_exists
    /\ avi_files = <<>> /\ avi_k = 0 /\ avi_pc = "call" /\ results = <<>>
    /\ avi_ret = None /\ pos = 0 /\ movi_end = 0 /\ left_files = <<>>
    /\ right_files = <<>> /\ framerate = None /\ outputs = {}
    /\ hdr_reads = <<>>

(***************************************************************************)
(* mpo_to_sbs and what process_one calls (src/main_images.py:41-147)       *)
(***************************************************************************)
\* the whole scan of parse_mpo_for_second_image, for the callers that use
\* its result: the loop body of ScanStep iterated to the loop's exit
RECURSIVE ScanOffsets(_, _, _)
ScanOffsets(b, k, offs) ==
    IF ~(k <= Len(b) - 4) THEN offs
    ELSE IF IsMarker(b, k)
         THEN ScanOffsets(b, k + SkipAfterMatch + 1, Append(offs, k))
         ELSE ScanOffsets(b, k + 1, offs)

parse_mpo_for_second_image(b) ==
    LET offs == ScanOffsets(b, 0, <<>>)
    IN  IF Len(offs) < 2
        THEN [kind |-> "ValueError"]
        ELSE [kind   |-> "ok",
              start  |-> offs[2],
              length |-> IF Len(offs) >= 3 THEN offs[3] - offs[2]
                         ELSE Len(b) - offs[2]]

\* The images of the model carry their size in the two bytes after the
\* 4-byte start marker; the decoder reads one image from the start of the
\* slice and ignores what follows it.
JpegBytes(w, h) == pattern1 \o <<w, h, 0, 0>>

decode_jpeg_slice(b, id) ==
    IF Len(b) >= 6 /\ IsMarker(b, 0) /\ b[5] > 0 /\ b[6] > 0
    THEN [kind |-> "ok", im |-> [width |-> b[5], height |-> b[6], id |-> id]]
    ELSE [kind |-> "error"]

\* lines 60-78; mmap refuses an empty file
read_two_frames_unreal_way(bytes) ==
    IF Len(bytes) = 0 THEN [kind |-> "error", why |-> "mmap"]
    ELSE LET l == decode_jpeg_slice(bytes, "left")
         IN  IF l.kind # "ok" THEN [kind |-> "error", why |-> "decode"]
             ELSE LET sl == parse_mpo_for_second_image(bytes)
                  IN  IF sl.kind # "ok" THEN [kind |-> "error", why |-> "markers"]
                      ELSE LET r == decode_jpeg_slice(
                                      SubSeq(bytes, sl.start + 1, sl.start + sl.length),
                                      "right")
                           IN  IF r.kind # "ok"
                               THEN [kind |-> "error", why |-> "decode"]
                               ELSE [kind |-> "ok", left |-> l.im, right |-> r.im]

\* line 114: outdir / f"{p.stem}_sbs.jpg"
OutName(p) == <<p.stem, "_sbs.jpg">>

\* lines 110-119: the line returned, and the file saved if any
process_one(p, t) ==
    LET fr == read_two_frames_unreal_way(p.bytes)
    IN  IF fr.kind # "ok"
        THEN [line  |-> [status |-> "FAIL", name |-> <<p.stem, p.ext>>, why |-> fr.why],
              saved |-> <<>>]
        ELSE [line  |-> [status |-> "OK", name |-> <<p.stem, p.ext>>,
                         out |-> OutName(p)],
              saved |-> <<[name |-> OutName(p),
                           sbs  |-> make_sbs(fr.left, fr.right, t)]>>]

Recognized == {".mpo", ".jpg", ".jpeg"}

\* lines 121-132
DiscoverImg(inp, rec) ==
    IF inp.kind = "file"
    THEN IF Lower(inp.file.ext) \notin Recognized
         THEN [kind |-> "unsupported"]
         ELSE [kind |-> "tasks", tasks |-> <<inp.file>>]
    ELSE IF inp.kind = "dir"
         THEN LET it == IF rec THEN inp.entries
                        ELSE SelectSeq(inp.entries, LAMBDA p : p.dir = "")
                  ts == SelectSeq(it, LAMBDA p : Lower(p.ext) \in Recognized)
              IN  IF ts = <<>> THEN [kind |-> "nofiles"]
                  ELSE [kind |-> "tasks", tasks |-> ts]
         ELSE [kind |-> "notfound"]

FallbackCpus == 4

PoolSize_uncapped(w, cpus) == Max(1, w)
\* line 141: max(1, min(workers, os.cpu_count() or 4)); cpus = 0 stands for
\* a cpu_count() of None
PoolSize(w, cpus) == Max(1, Min(w, IF cpus = 0 THEN FallbackCpus ELSE cpus))

\* line 135
Sequential(n, w) == n = 1 \/ w <= 1

ImgOff ==
    /\ img_input = None /\ recursive = FALSE /\ workers = 0 /\ cpu_count = 0
    /\ img_target = 0 /\ outdir_exists = FALSE /\ outdir_existed = FALSE
    /\ tasks = <<>> /\ img_pc = "off" /\ logs = <<>> /\ img_ret = None
    /\ submitted = 0 /\ queue = <<>> /\ running = <<>> /\ finished = <<>>
    /\ collected = {} /\ saved = <<>> /\ ran = <<>>

\* lines 106-108, 121-135 and 141-142
ImgCall ==
    /\ img_pc = "call"
    /\ outdir_exists' = TRUE
    /\ LET d == DiscoverImg(img_input, recursive)
       IN  IF d.kind # "tasks"
           THEN /\ img_ret' = d
                /\ img_pc' = "returned"
                /\ UNCHANGED <<tasks, running, finished, ran>>
           ELSE /\ tasks' = d.tasks
                /\ finished' = [t \in 1..Len(d.tasks) |-> None]
                /\ ran' = [t \in 1..Len(d.tasks) |-> <<>>]
                /\ IF Sequential(Len(d.tasks), workers)
                   THEN /\ img_pc' = "seq"
                        /\ UNCHANGED running
                   ELSE /\ img_pc' = "submit"
                        /\ running' = [k \in 1..PoolSize(workers, cpu_count) |-> 0]
                /\ UNCHANGED img_ret
    /\ UNCHANGED <<img_input, recursive, workers, cpu_count, img_target,
                   outdir_existed, logs, submitted, queue, collected, saved>>
    /\ UNCHANGED <<scanVars, sbsVars, aviVars>>

\* lines 136-137: one pass of "for p in tasks"
ImgSeqStep ==
    /\ img_pc = "seq"
    /\ Len(logs) < Len(tasks)
    /\ LET t == Len(logs) + 1
           r == process_one(tasks[t], img_target)
       IN  /\ logs' = Append(logs, [task |-> t, line |-> r.line])
           /\ saved' = saved \o [k \in 1..Len(r.saved) |->
                                   [by |-> 0, task |-> t, file |-> r.saved[k]]]
           /\ ran' = [ran EXCEPT ![t] = Append(@, 0)]
           /\ finished' = [finished EXCEPT ![t] = r.line]
    /\ UNCHANGED <<img_input, recursive, workers, cpu_count, img_target,
                   outdir_exists, outdir_existed, tasks, img_pc, img_ret,
                   submitted, queue, running, collected>>
    /\ UNCHANGED <<scanVars, sbsVars, aviVars>>

\* line 143: ex.submit(process_one, p) for the next p of tasks
ImgSubmit ==
    /\ img_pc = "submit"
    /\ submitted' = submitted + 1
    /\ queue' = Append(queue, submitted + 1)
    /\ img_pc' = IF submitted + 1 = Len(tasks) THEN "collect" ELSE "submit"
    /\ UNCHANGED <<img_input, recursive, workers, cpu_count, img_target,
                   outdir_exists, outdir_existed, tasks, logs, img_ret,
                   running, finished, collected, saved, ran>>
    /\ UNCHANGED <<scanVars, sbsVars, aviVars>>

\* a pool thread takes the next queued call and enters process_one
WorkerTake(k) ==
    /\ img_pc \in {"submit", "collect"}
    /\ running[k] = 0
    /\ queue # <<>>
    /\ running' = [running EXCEPT ![k] = Head(queue)]
    /\ queue' = Tail(queue)
    /\ ran' = [ran EXCEPT ![Head(queue)] = Append(@, k)]
    /\ UNCHANGED <<img_input, recursive, workers, cpu_count, img_target,
                   outdir_exists, outdir_existed, tasks, img_pc, logs, img_ret,
                   submitted, finished, collected, saved>>
    /\ UNCHANGED <<scanVars, sbsVars, aviVars>>

\* the thread's process_one saves its file and returns; the future is done
WorkerFinish(k) ==
    /\ img_pc \in {"submit", "collect"}
    /\ running[k] # 0
    /\ LET t == running[k]
           r == process_one(tasks[t], img_target)
       IN  /\ saved' = saved \o [j \in 1..Len(r.saved) |->
                                   [by |-> k, task |-> t, file |-> r.saved[j]]]
           /\ finished' = [finished EXCEPT ![t] = r.line]
    /\ running' = [running EXCEPT ![k] = 0]
    /\ UNCHANGED <<img_input, recursive, workers, cpu_count, img_target,
                   outdir_exists, outdir_existed, tasks, img_pc, logs, img_ret,
                   submitted, queue, collected, ran>>
    /\ UNCHANGED <<scanVars, sbsVars, aviVars>>

\* lines 144-145: as_completed yields a finished future not yet yielded
ImgCollect ==
    /\ img_pc = "collect"
    /\ \E t \in 1..Len(tasks) :
         /\ t \notin collected
         /\ finished[t] # None
         /\ collected' = collected \cup {t}
         /\ logs' = Append(logs, [task |-> t, line |-> finished[t]])
    /\ UNCHANGED <<img_input, recursive, workers, cpu_count, img_target,
                   outdir_exists, outdir_existed, tasks, img_pc, img_ret,
                   submitted, queue, running, finished, saved, ran>>
    /\ UNCHANGED <<scanVars, sbsVars, aviVars>>

\* line 147, after the loop (and, in the pool branch, after the executor's
\* shutdown(wait=True) at the end of the with block)
ImgReturn ==
    /\ \/ img_pc = "seq" /\ Len(logs) = Len(tasks)
       \/ /\ img_pc = "collect"
          /\ collected = 1..Len(tasks)
          /\ queue = <<>>
          /\ \A k \in 1..Len(running) : running[k] = 0
    /\ img_ret' = [kind |-> "report", lines |-> logs]
    /\ img_pc' = "returned"
    /\ UNCHANGED <<img_input, recursive, workers, cpu_count, img_target,
                   outdir_exists, outdir_existed, tasks, logs, submitted,
                   queue, running, finished, collected, saved, ran>>
    /\ UNCHANGED <<scanVars, sbsVars, aviVars>>

\* ---- the inputs of mpo_to_sbs ----
TwoImages == JpegBytes(2, 2) \o JpegBytes(2, 2)
ThreeImages == JpegBytes(2, 3) \o JpegBytes(1, 2) \o JpegBytes(1, 1)

ImgFile(dir, stem, ext, bytes) ==
    [dir |-> dir, stem |-> stem, ext |-> ext, bytes |-> bytes]

FilePool ==
    << ImgFile("", "x", ".mpo", TwoImages),
       ImgFile("", "x", ".jpg", ThreeImages),
       ImgFile("sub", "x", ".mpo", TwoImages),
       ImgFile("", "s", ".JPG", JpegBytes(2, 2)),
       ImgFile("", "notes", ".txt", <<1, 2, 3>>),
       ImgFile("", "e", ".mpo", <<>>) >>

MaxFiles == 3
MaxWorkers == 2

ImgInputs ==
    {[kind |-> "missing"]}
    \cup { File(FilePool[k]) : k \in 1..Len(FilePool) }
    \cup { Dir([j \in 1..Cardinality(S) |-> FilePool[SortedSeq(S)[j]]]) :
             S \in { T \in SUBSET (1..Len(FilePool)) : Cardinality(T) <= MaxFiles } }

InitImgVars ==
    /\ img_input \in ImgInputs
    /\ recursive \in BOOLEAN
    /\ workers \in 0..MaxWorkers
    /\ cpu_count \in 0..2
    /\ img_target \in {0, 1}
    /\ outdir_exists \in BOOLEAN
    /\ outdir_existed = outdir_exists
    /\ tasks = <<>> /\ img_pc = "call" /\ logs = <<>> /\ img_ret = None
    /\ submitted = 0 /\ queue = <<>> /\ running = <<>> /\ finished = <<>>
    /\ collected = {} /\ saved = <<>> /\ ran = <<>>

(***************************************************************************)
(* Specifications                                                          *)
(***************************************************************************)
InitScan == InitScanVars /\ SbsOff /\ AviOff /\ ImgOff
NextScan == ScanStep \/ ScanReturn
SpecScan == InitScan /\ [][NextScan]_vars

InitSbs == InitSbsVars /\ ScanOff /\ AviOff /\ ImgOff
NextSbs == Compose
SpecSbs == InitSbs /\ [][NextSbs]_vars

InitAvi == InitAviVars /\ ScanOff /\ SbsOff /\ ImgOff
NextAvi ==
    \/ AviCall
    \/ AviStartItem
    \/ AviTopChunk
    \/ AviMoviChunk
    \/ AviMoviEnd
    \/ AviPair
    \/ AviReturn
SpecAvi == InitAvi /\ [][NextAvi]_vars

InitImg == InitImgVars /\ ScanOff /\ SbsOff /\ AviOff
NextImg ==
    \/ ImgCall
    \/ ImgSeqStep
    \/ ImgSubmit
    \/ \E k \in 1..Len(running) : WorkerTake(k)
    \/ \E k \in 1..Len(running) : WorkerFinish(k)
    \/ ImgCollect
    \/ ImgReturn
SpecImg == InitImg /\ [][NextImg]_vars


(***************************************************************************)
(* C3: for every buffer, the offsets recorded by the scan are exactly the  *)
(* positions where one of the two 4-byte markers starts, in ascending      *)
(* order; with fewer than two such positions the function raises, and      *)
(* otherwise it returns the second position as start and the distance to   *)
(* the third position (or to the end of the buffer) as length, with        *)
(* 0 < start and start + length <= len(buf).                               *)
(***************************************************************************)
MarkerSet(b) == { k \in 0..(Len(b) - 4) : IsMarker(b, k) }

C3_ScanMatchesReference ==
    scan_pc = "done" =>
        LET M == SortedSeq(MarkerSet(buf))
            n == Len(buf)
        IN  /\ offsets = M
            /\ Len(M) < 2 => scan_ret = [kind |-> "ValueError"]
            /\ Len(M) >= 2 =>
                 /\ scan_ret.kind = "ok"
                 /\ scan_ret.start = M[2]
                 /\ scan_ret.length =
                      (IF Len(M) >= 3 THEN M[3] - M[2] ELSE n - M[2])
                 /\ 0 < scan_ret.start
                 /\ scan_ret.start + scan_ret.length <= n

\* three markers back to back: the skip lands exactly on the next marker
C3_Witness ==
    /\ scan_pc = "done"
    /\ Len(offsets) >= 3
    /\ offsets[2] = offsets[1] + 4
    /\ scan_ret.kind = "ok"

(***************************************************************************)
(* C4: the canvas has height H (t when t > 0, else the larger source       *)
(* height) and width Lw + Rw; both pasted images have height H, left at    *)
(* columns [0, Lw) and right at [Lw, Lw + Rw), so every canvas pixel is    *)
(* covered by exactly one pasted image; an image already of height H is    *)
(* pasted as the same image, and two W x H inputs with t = 0 give 2W x H.  *)
(***************************************************************************)
Covers(p, x, y) ==
    /\ p.x <= x /\ x < p.x + p.im.width
    /\ p.y <= y /\ y < p.y + p.im.height

RECURSIVE TaggedFrom(_, _, _)
TaggedFrom(subs, tag, j) ==
    IF j > Len(subs) THEN <<>>
    ELSE (IF subs[j].tag = tag THEN <<Payload(j, subs[j].size)>> ELSE <<>>)
         \o TaggedFrom(subs, tag, j + 1)

Tagged(subs, tag) == TaggedFrom(subs, tag, 1)

C2_WalkAndPair ==
    /\ (avi_pc = "pair" /\ avi_files[avi_k].wellformed) =>
         /\ left_files = Tagged(avi_files[avi_k].subs, tag_00dc)
         /\ right_files = Tagged(avi_files[avi_k].subs, tag_02dc)
    \* the pairing step of such a container does not raise
    /\ (avi_pc = "returned" /\ avi_ret = [kind |-> "error", msg |-> "Image.open"]) =>
         ~avi_files[avi_k].wellformed
    /\ \A j \in 1..Len(avi_files) :
         (avi_files[j].wellformed /\ (j < avi_k \/ avi_ret.kind = "report")) =>
            LET f == avi_files[j]
                L == Tagged(f.subs, tag_00dc)
                R == Tagged(f.subs, tag_02dc)
                n == Min(Len(L), Len(R))
                made == {o \in outputs : o.name = f.name}
            IN  /\ j <= Len(results)
                /\ IF n = 0
                   THEN /\ results[j] = [kind |-> "extraction_failed",
                                         name |-> f.name,
                                         left |-> Len(L), right |-> Len(R)]
                        /\ made = {}
                   ELSE /\ results[j] = [kind |-> "ok", name |-> f.name]
                        /\ Cardinality(made) = 1
                        /\ \A o \in made :
                             o.frames = [idx \in 1..n |->
                                           [left |-> L[idx], right |-> R[idx]]]

\* right, left, other, left: one pair, made of the 2nd and the 1st sub-chunk
C2_Witness ==
    /\ avi_pc = "returned"
    /\ avi_ret.kind = "report"
    /\ Len(avi_files) = 1
    /\ avi_files[1].wellformed
    /\ Len(avi_files[1].subs) = 3
    /\ avi_files[1].subs[1].tag = tag_02dc
    /\ avi_files[1].subs[2].tag = tag_00dc
    /\ avi_files[1].subs[3].tag = tag_00dc
    /\ \E o \in outputs :
         /\ Len(o.frames) = 1
         /\ o.frames[1].left = Payload(2, avi_files[1].subs[2].size)
         /\ o.frames[1].right = Payload(1, avi_files[1].subs[1].size)

(***************************************************************************)
(* C5: after a chunk whose header starts at p and declares size s, for a   *)
(* skipped top-level chunk and for any sub-chunk of the movie list, the    *)
(* read position is p + 8 + s + (s mod 2), and that is where the next      *)
(* header is read; a sub-chunk cut short by the end of the file leaves the *)
(* position at the end of the file (plus the pad), where no header is      *)
(* read.                                                                   *)
(***************************************************************************)
NextHeaderPos(e) == e.pos + 8 + e.size + (e.size % 2)

C5_PaddingAdvance ==
    /\ \A j \in 1..(Len(hdr_reads) - 1) :
         hdr_reads[j].kind \in {"chunk", "sub"} =>
            hdr_reads[j + 1].pos = NextHeaderPos(hdr_reads[j])
    /\ (avi_pc \in {"top", "movi"} /\ hdr_reads # <<>>) =>
         LET e == hdr_reads[Len(hdr_reads)]
             n == Len(avi_files[avi_k].bytes)
         IN  /\ e.kind = "chunk" => pos = NextHeaderPos(e)
             /\ (e.kind = "sub" /\ e.pos + 8 + e.size <= n) =>
                  pos = NextHeaderPos(e)

\* a sub-chunk of size 5 followed by a header 14 bytes on, and an even one
\* followed by a header 10 bytes on
C5_Witness ==
    /\ Len(hdr_reads) >= 4
    /\ \E j \in 1..(Len(hdr_reads) - 1) :
         /\ hdr_reads[j].kind = "sub" /\ hdr_reads[j].size = 5
         /\ hdr_reads[j + 1].pos = hdr_reads[j].pos + 14
    /\ \E j \in 1..(Len(hdr_reads) - 1) :
         /\ hdr_reads[j].kind = "sub" /\ hdr_reads[j].size = 2
         /\ hdr_reads[j + 1].pos = hdr_reads[j].pos + 10
    /\ \E j \in 1..(Len(hdr_reads) - 1) :
         /\ hdr_reads[j].kind = "chunk" /\ hdr_reads[j].size % 2 = 1

(***************************************************************************)
(* C9: a top-level LIST chunk whose subtype is not movi is skipped as a    *)
(* whole: after its header at p with size s the next header is read at     *)
(* p + 8 + s + (s mod 2).                                                  *)
(***************************************************************************)
C9_NonMovieListSkipped ==
    \A j \in 1..(Len(hdr_reads) - 1) :
        hdr_reads[j].kind = "list" =>
            hdr_reads[j + 1].pos = NextHeaderPos(hdr_reads[j])

(***************************************************************************)
(* C8: the frame rate used is num/den (to the three decimals kept) for a   *)
(* rational string with den # 0, the decimal value for a decimal string    *)
(* and 30 in every other case; an unparsable string never makes the item   *)
(* or the batch fail.                                                      *)
(***************************************************************************)
IsRational(s) ==
    LET parts == Split(Strip(s), "/")
    IN  Len(parts) = 2 /\ IntParses(parts[1]) /\ IntParses(parts[2])

IsDecimal(s) == ~Contains(Strip(s), "/") /\ FloatParses(s)

ExpectedRate(s) ==
    IF IsRational(s) /\ IntOf(Split(Strip(s), "/")[2]) # 0
    THEN LET parts == Split(Strip(s), "/")
         IN  Rat(RoundHalfEven(IntOf(parts[1]) * 1000, IntOf(parts[2])), 1000)
    ELSE IF IsDecimal(s) THEN FloatOf(s)
    ELSE Rat(30, 1)

C8_FrameRateFallback ==
    /\ avi_pc \in {"top", "movi", "pair"} =>
         RatEq(framerate, ExpectedRate(avi_files[avi_k].probe))
    /\ \A o \in outputs : \A j \in 1..Len(avi_files) :
         avi_files[j].name = o.name =>
            RatEq(o.framerate, ExpectedRate(avi_files[j].probe))
    /\ ~(avi_pc = "returned" /\ avi_ret = [kind |-> "error", msg |-> "ValueError"])

(***************************************************************************)
(* C1: failure isolation in both pipelines: with n >= 1 discovered items,  *)
(* an item that fails while parsed or paired yields exactly one failure    *)
(* line of its own, the lines of the items before it are kept, the items   *)
(* after it are processed, and the returned report holds n lines.          *)
(***************************************************************************)
\* the lines of the string the AVI entry point returned; the "Error: ..."
\* string of line 166 is one line, counted for the file being processed
AviReportLines ==
    IF avi_ret.kind = "report" THEN avi_ret.lines
    ELSE <<[kind |-> "error", name |-> avi_files[avi_k].name]>>

C1_FailureIsolation ==
    /\ (avi_pc = "returned" /\ Len(avi_files) >= 1) =>
         /\ Len(AviReportLines) = Len(avi_files)
         /\ \A j \in 1..Len(avi_files) :
              AviReportLines[j].name = avi_files[j].name
    /\ (img_pc = "returned" /\ Len(tasks) >= 1) =>
         /\ img_ret.kind = "report"
         /\ Len(img_ret.lines) = Len(tasks)
         /\ \A t \in 1..Len(tasks) :
              \E j \in 1..Len(img_ret.lines) :
                 /\ img_ret.lines[j].task = t
                 /\ img_ret.lines[j].line = process_one(tasks[t], img_target).line

(***************************************************************************)
(* C6: when discovery fails (missing path, unsupported single file, no     *)
(* recognized file), both entry points return the error without having     *)
(* created the output directory.                                           *)
(***************************************************************************)
C6_NoSideEffectOnDiscoveryError ==
    /\ (avi_pc = "returned" /\ avi_files = <<>>) =>
         output_exists = output_existed
    /\ (img_pc = "returned" /\ img_ret.kind # "report") =>
         outdir_exists = outdir_existed

(***************************************************************************)
(* C7: with n >= 2 items and workers >= 2, in every interleaving each item *)
(* is passed to process_one once and run by one thread, at most            *)
(* max(1, min(workers, cpu_count)) items are in progress, and mpo_to_sbs   *)
(* returns only after every item has completed, with one log line per      *)
(* item; with n = 1 or workers <= 1 the items are processed one at a time  *)
(* in enumeration order and the log lines are in that order.               *)
(***************************************************************************)
InProgress == Cardinality({k \in 1..Len(running) : running[k] # 0})

LinesOf(t) == {j \in 1..Len(logs) : logs[j].task = t}

C7_ParallelDispatch ==
    (img_pc \notin {"off", "call"} /\ tasks # <<>>) =>
        LET n     == Len(tasks)
            cpus  == IF cpu_count = 0 THEN 4 ELSE cpu_count
            bound == Max(1, Min(workers, cpus))
        IN  /\ \A t \in 1..n : Len(ran[t]) <= 1 /\ Cardinality(LinesOf(t)) <= 1
            /\ InProgress <= bound
            /\ Cardinality({t \in 1..n : ran[t] # <<>> /\ finished[t] = None})
                 <= bound
            /\ (n = 1 \/ workers <= 1) =>
                 /\ running = <<>>
                 /\ \A j \in 1..Len(logs) : logs[j].task = j
                 /\ \A t \in 1..n : ran[t] # <<>> <=> t <= Len(logs)
            /\ img_pc = "returned" =>
                 /\ InProgress = 0
                 /\ Len(img_ret.lines) = n
                 /\ \A t \in 1..n :
                      /\ Len(ran[t]) = 1
                      /\ finished[t] # None
                      /\ Cardinality(LinesOf(t)) = 1

\* two threads each ran one item, and the second item was reported first
C7_Witness ==
    /\ img_pc = "returned"
    /\ Len(tasks) = 3
    /\ workers >= 2
    /\ ran[1] # ran[2]
    /\ img_ret.lines[1].task = 2
    /\ img_ret.lines[3].task = 1

(***************************************************************************)
(* C10: within one mpo_to_sbs call any two distinct items resolve to       *)
(* distinct output files, so no output file is written twice or by two     *)
(* threads, also for x.mpo beside x.jpg and for the same file name in two  *)
(* subdirectories.                                                         *)
(***************************************************************************)
C10_OutputExclusive ==
    \A j1, j2 \in 1..Len(saved) :
        j1 # j2 => saved[j1].file.name # saved[j2].file.name

====
